---- MODULE Spec2Model ----
(***************************************************************************)
(* State-machine model of the Yoga-compatible Node wrapper over the Taffy  *)
(* layout engine (src/src/Config.ts): the canonical style cache, the edge  *)
(* resolver, the layout pass with its right-to-left mirroring, and the     *)
(* dirty / new-layout bookkeeping.                                         *)
(*                                                                         *)
(* JavaScript values and Taffy style values are both modelled as records   *)
(* [t, n] (a tag and a number), so that any two values can be compared.    *)
(***************************************************************************)
EXTENDS Integers, Sequences, FiniteSets, TLC

MaxNodes == 3

Nodes == 1..MaxNodes

MaxConfigs == 2

\* the Configs, each owning one engine tree; Config 1 is the default Config
Configs == 1..MaxConfigs

Null == 0

EdgeKeys ==
  {"Left", "Right", "Top", "Bottom", "Start", "End", "Horizontal", "Vertical", "All"}

InsetKeys == {"Left", "Right", "Top", "Bottom", "Start", "End"}

FlexDirections == {"Column", "ColumnReverse", "Row", "RowReverse"}

Directions == {"Inherit", "LTR", "RTL"}

PositionTypes == {"Relative", "Absolute", "Static"}

(* ---- JavaScript-side values handed to the setters ---- *)
Undefined == [t |-> "undefined", n |-> 0]

StrAuto == [t |-> "auto", n |-> 0]

Num(x) == [t |-> "number", n |-> x]

StrPercent(p) == [t |-> "percent", n |-> p]

(* ---- Taffy style values: "Auto", {Length: x}, {Percent: p / 100} ---- *)
TAuto == [t |-> "Auto", n |-> 0]

TLength(x) == [t |-> "Length", n |-> x]

\* n holds the numerator p of the stored fraction p / 100.0
TPercent(p) == [t |-> "Percent", n |-> p]

Rect(l, r, tp, b) == [left |-> l, right |-> r, top |-> tp, bottom |-> b]

\* Node.parseValue: number | "auto" | "p%" | anything else
ParseValue(value) ==
  IF value.t = "auto" THEN TAuto
  ELSE IF value.t = "percent" THEN TPercent(value.n)
  ELSE IF value.t = "number" THEN TLength(value.n)
  ELSE TAuto

\* the value a resolver stores on a side: margins and paddings go through
\* parseValue, the border resolver wraps the cached number as { Length: value }
ParseFor(family, value) ==
  IF family = "borders" THEN TLength(value.n) ELSE ParseValue(value)

(* ---- The edge resolver of margins, paddings and borders ---- *)
\* setPhysical: an undefined value leaves the side as it is
SetPhysical(current, side, value, family) ==
  IF value # Undefined THEN [current EXCEPT ![side] = ParseFor(family, value)]
  ELSE current

\* ResolveEdges with the Start/End step moved after the physical keys
ResolveEdgesLogicalLast(edges, isRTL, fresh, family) ==
  LET a1 == SetPhysical(fresh, "left", edges["All"], family)
      a2 == SetPhysical(a1, "right", edges["All"], family)
      a3 == SetPhysical(a2, "top", edges["All"], family)
      a4 == SetPhysical(a3, "bottom", edges["All"], family)
      h1 == SetPhysical(a4, "left", edges["Horizontal"], family)
      h2 == SetPhysical(h1, "right", edges["Horizontal"], family)
      v1 == SetPhysical(h2, "top", edges["Vertical"], family)
      v2 == SetPhysical(v1, "bottom", edges["Vertical"], family)
      p1 == SetPhysical(v2, "left", edges["Left"], family)
      p2 == SetPhysical(p1, "right", edges["Right"], family)
      p3 == SetPhysical(p2, "top", edges["Top"], family)
      p4 == SetPhysical(p3, "bottom", edges["Bottom"], family)
      s1 == SetPhysical(p4, IF isRTL THEN "right" ELSE "left", edges["Start"], family)
      e1 == SetPhysical(s1, IF isRTL THEN "left" ELSE "right", edges["End"], family)
  IN  e1

\* The body shared by resolveMarginsToTaffy / resolvePaddingsToTaffy /
\* resolveBordersToTaffy: compound keys, then Start/End, then the physical keys.
ResolveEdges(edges, isRTL, fresh, family) ==
  LET a1 == SetPhysical(fresh, "left", edges["All"], family)
      a2 == SetPhysical(a1, "right", edges["All"], family)
      a3 == SetPhysical(a2, "top", edges["All"], family)
      a4 == SetPhysical(a3, "bottom", edges["All"], family)
      h1 == SetPhysical(a4, "left", edges["Horizontal"], family)
      h2 == SetPhysical(h1, "right", edges["Horizontal"], family)
      v1 == SetPhysical(h2, "top", edges["Vertical"], family)
      v2 == SetPhysical(v1, "bottom", edges["Vertical"], family)
      s1 == SetPhysical(v2, IF isRTL THEN "right" ELSE "left", edges["Start"], family)
      e1 == SetPhysical(s1, IF isRTL THEN "left" ELSE "right", edges["End"], family)
      p1 == SetPhysical(e1, "left", edges["Left"], family)
      p2 == SetPhysical(p1, "right", edges["Right"], family)
      p3 == SetPhysical(p2, "top", edges["Top"], family)
      p4 == SetPhysical(p3, "bottom", edges["Bottom"], family)
  IN  p4

ResolveMargins(margins, isRTL) ==
  ResolveEdges(margins, isRTL, Rect(TAuto, TAuto, TAuto, TAuto), "margins")

ResolvePaddings(paddings, isRTL) ==
  ResolveEdges(paddings, isRTL,
               Rect(TLength(0), TLength(0), TLength(0), TLength(0)), "paddings")

ResolveBorders(borders, isRTL) ==
  ResolveEdges(borders, isRTL,
               Rect(TLength(0), TLength(0), TLength(0), TLength(0)), "borders")

(* ---- The inset resolver ---- *)
\* parser in resolveInsets: the raw "auto" string becomes "Auto"
InsetParser(v) == IF v = StrAuto THEN TAuto ELSE v

\* Node.resolveInsets: Start/End, when not Auto, replace Left/Right
ResolveInsets(insets, isRTL) ==
  LET l == InsetParser(insets["Left"])
      r == InsetParser(insets["Right"])
      tp == InsetParser(insets["Top"])
      b == InsetParser(insets["Bottom"])
      s == InsetParser(insets["Start"])
      e == InsetParser(insets["End"])
      left1 == IF s # TAuto /\ ~isRTL THEN s ELSE l
      right1 == IF s # TAuto /\ isRTL THEN s ELSE r
      left2 == IF e # TAuto /\ isRTL THEN e ELSE left1
      right2 == IF e # TAuto /\ ~isRTL THEN e ELSE right1
  IN  Rect(left2, right2, tp, b)

\* the cache write of Node.setPosition: compound keys fan out
WriteInset(insets, edge, val) ==
  IF edge = "All"
    THEN [k \in InsetKeys |-> val]
    ELSE IF edge = "Horizontal"
      THEN [k \in InsetKeys |->
              IF k \in {"Left", "Right", "Start", "End"} THEN val ELSE insets[k]]
      ELSE IF edge = "Vertical"
        THEN [k \in InsetKeys |-> IF k \in {"Top", "Bottom"} THEN val ELSE insets[k]]
        ELSE [insets EXCEPT ![edge] = val]

\* the cache write of setMargin / setPadding / setBorder: the key itself
WriteEdge(edges, edge, value) == [edges EXCEPT ![edge] = value]

\* effective insets that take the resolved values also for a Static node
EffectiveInsetsAlwaysResolved(cache) ==
  ResolveInsets(cache.insets, cache.lastDirection = "RTL")

\* what syncStyle and resolveInsetsToTaffy write to s.inset
EffectiveInsets(cache) ==
  IF cache.position = "Static"
    THEN Rect(TAuto, TAuto, TAuto, TAuto)
    ELSE ResolveInsets(cache.insets, cache.lastDirection = "RTL")

(* ---- Defaults ---- *)
\* the field initialiser of Node._styleCache
DefaultStyleCache ==
  [position |-> "Relative",
   flexDirection |-> "Column",
   boxSizing |-> "BorderBox",
   insets |-> [k \in InsetKeys |-> StrAuto],
   borders |-> [k \in EdgeKeys |-> Undefined],
   margins |-> [k \in EdgeKeys |-> Undefined],
   paddings |-> [k \in EdgeKeys |-> Undefined],
   lastDirection |-> "LTR",
   direction |-> "Inherit"]

\* new Taffy.Style(): the engine's defaults (flex-direction Row, zero margin,
\* padding and border, Auto inset, relative position)
DefaultTaffyStyle ==
  [flex_direction |-> "Row",
   position |-> "Relative",
   inset |-> Rect(TAuto, TAuto, TAuto, TAuto),
   margin |-> Rect(TLength(0), TLength(0), TLength(0), TLength(0)),
   padding |-> Rect(TLength(0), TLength(0), TLength(0), TLength(0)),
   border |-> Rect(TLength(0), TLength(0), TLength(0), TLength(0))]

VARIABLES
  instanceCache,  \* Node.instanceCache: the nodes the map holds, each under its id
  nodeId,         \* Node.id, per node: the handle its tree issued (0 before construction)
  nodeConfig,     \* Node.config, per node (0 before construction)
  taffyTree,      \* Config._tree, per Config: whether it is live, how many handles
                  \* it has issued and which of them are live in it
  childList,      \* Node.childList, per node
  parent,         \* Node.parent, per node (Null for none)
  styleCache,     \* Node._styleCache, per node
  taffyStyle,     \* the engine's live style, per handle
  measureFunc,    \* whether Node.measureFunc is set, per node
  dirtiedFunc,    \* whether Node.dirtiedFunc is set, per node
  isDirty,        \* Node._isDirty, per node
  hasNewLayout,   \* Node._hasNewLayout, per node
  isReferenceBaseline, \* Node._isReferenceBaseline, per node
  layoutWidth,    \* the width of the engine's layout (tree.getLayout), per handle
  dirtiedLog,     \* the nodes whose dirtied callback the last operation invoked, in order
  dirtiedView,    \* what each of these invocations found: the node's dirty flag
                  \* and its engine style at the moment of the call
  pass            \* the calculateLayout call in flight, if any: its position (pc),
                  \* its receiver (root), its direction argument (arg), its local
                  \* effectiveDirection (direction) and availableSpace, and what
                  \* getFlexDirection returned on each node when it was entered
                  \* (before)

vars ==
  <<instanceCache, nodeId, nodeConfig, taffyTree, childList, parent, styleCache,
    taffyStyle, measureFunc,
    dirtiedFunc, isDirty, hasNewLayout, isReferenceBaseline, layoutWidth,
    dirtiedLog, dirtiedView, pass>>

(* ---- mapping.ts ---- *)
FromYogaFlexDirection(direction) ==
  IF direction \in FlexDirections THEN direction ELSE "Row"

ToYogaFlexDirection(direction) ==
  IF direction \in FlexDirections THEN direction ELSE "Row"

FromYogaPositionType(pos) == IF pos = "Absolute" THEN "Absolute" ELSE "Relative"

(* ---- The state an operation threads through its calls ---- *)
\* the mutable fields a method body works on
World ==
  [style |-> taffyStyle, cache |-> styleCache, dirty |-> isDirty,
   newLayout |-> hasNewLayout, log |-> <<>>, view |-> <<>>]

\* the call dirtiedFunc(node): the callback runs on the fields as they are now
Invoke(w, n) ==
  [w EXCEPT !.log = Append(@, n),
            !.view = Append(@, [dirty |-> w.dirty[n], style |-> w.style[n]])]

\* Node.markDirtyInternal
MarkDirtyInternal(w, n) ==
  IF ~w.dirty[n] /\ measureFunc[n] /\ dirtiedFunc[n]
    THEN Invoke([w EXCEPT !.dirty[n] = TRUE], n)
    ELSE IF ~w.dirty[n] THEN [w EXCEPT !.dirty[n] = TRUE] ELSE w

\* Node.updateStyle: write the style back, then markDirtyInternal
UpdateStyle(w, n, style) == MarkDirtyInternal([w EXCEPT !.style[n] = style], n)

IsRTL(w, n) == w.cache[n].lastDirection = "RTL"

\* Node.resolveMarginsToTaffy
ResolveMarginsToTaffy(w, n) ==
  UpdateStyle(w, n,
    [w.style[n] EXCEPT !.margin = ResolveMargins(w.cache[n].margins, IsRTL(w, n))])

\* Node.resolvePaddingsToTaffy
ResolvePaddingsToTaffy(w, n) ==
  UpdateStyle(w, n,
    [w.style[n] EXCEPT !.padding = ResolvePaddings(w.cache[n].paddings, IsRTL(w, n))])

\* Node.resolveBordersToTaffy
ResolveBordersToTaffy(w, n) ==
  UpdateStyle(w, n,
    [w.style[n] EXCEPT !.border = ResolveBorders(w.cache[n].borders, IsRTL(w, n))])

\* Node.syncStyle
SyncStyle(w, n) ==
  UpdateStyle(w, n,
    [w.style[n] EXCEPT !.position = FromYogaPositionType(w.cache[n].position),
                       !.inset = EffectiveInsets(w.cache[n])])

RECURSIVE ResolveInsetsToTaffy(_, _)
RECURSIVE ResolveInsetsOfChildren(_, _, _)
\* Node.resolveInsetsToTaffy: this node, then every child with this node's direction
ResolveInsetsToTaffy(w, n) ==
  ResolveInsetsOfChildren(
    UpdateStyle(w, n, [w.style[n] EXCEPT !.inset = EffectiveInsets(w.cache[n])]),
    n, 1)

\* the for-loop over childList in resolveInsetsToTaffy
ResolveInsetsOfChildren(w, n, i) ==
  IF i > Len(childList[n]) THEN w
  ELSE LET child == childList[n][i]
           w1 == [w EXCEPT !.cache[child].lastDirection = w.cache[n].lastDirection]
       IN  ResolveInsetsOfChildren(ResolveInsetsToTaffy(w1, child), n, i + 1)

\* a swap that swaps nothing
FlippedFlexDirectionNone(fd) == fd

\* the Row <-> RowReverse swap of applyRTLFlip
FlippedFlexDirection(fd) ==
  IF fd = "Row" THEN "RowReverse" ELSE IF fd = "RowReverse" THEN "Row" ELSE fd

RECURSIVE ApplyRTLFlip(_, _)
RECURSIVE ApplyRTLFlipToChildren(_, _, _)
\* Node.applyRTLFlip
ApplyRTLFlip(w, n) ==
  ApplyRTLFlipToChildren(
    UpdateStyle(w, n,
      [w.style[n] EXCEPT !.flex_direction =
         FromYogaFlexDirection(FlippedFlexDirection(w.cache[n].flexDirection))]),
    n, 1)

ApplyRTLFlipToChildren(w, n, i) ==
  IF i > Len(childList[n]) THEN w
  ELSE ApplyRTLFlipToChildren(ApplyRTLFlip(w, childList[n][i]), n, i + 1)

RECURSIVE RestoreFlexDirection(_, _)
RECURSIVE RestoreFlexDirectionOfChildren(_, _, _)
\* Node.restoreFlexDirection
RestoreFlexDirection(w, n) ==
  RestoreFlexDirectionOfChildren(
    UpdateStyle(w, n,
      [w.style[n] EXCEPT !.flex_direction =
         FromYogaFlexDirection(w.cache[n].flexDirection)]),
    n, 1)

RestoreFlexDirectionOfChildren(w, n, i) ==
  IF i > Len(childList[n]) THEN w
  ELSE RestoreFlexDirectionOfChildren(
         RestoreFlexDirection(w, childList[n][i]), n, i + 1)

\* a walk that marks the node it is called on and none of its children
MarkNewLayoutRootOnly(w, n) == [w EXCEPT !.dirty[n] = FALSE, !.newLayout[n] = TRUE]

RECURSIVE MarkNewLayoutRecursive(_, _)
RECURSIVE MarkNewLayoutOfChildren(_, _, _)
\* Node.markNewLayoutRecursive
MarkNewLayoutRecursive(w, n) ==
  MarkNewLayoutOfChildren(
    [w EXCEPT !.dirty[n] = FALSE, !.newLayout[n] = TRUE], n, 1)

MarkNewLayoutOfChildren(w, n, i) ==
  IF i > Len(childList[n]) THEN w
  ELSE MarkNewLayoutOfChildren(
         MarkNewLayoutRecursive(w, childList[n][i]), n, i + 1)

RECURSIVE PropagateDirtyStopsAtDirty(_, _)
\* a propagation that ends at the first ancestor found Dirty
PropagateDirtyStopsAtDirty(w, n) ==
  IF parent[n] = Null \/ w.dirty[parent[n]] THEN w
  ELSE LET p == parent[n]
           w1 == IF dirtiedFunc[p]
                   THEN Invoke([w EXCEPT !.dirty[p] = TRUE], p)
                   ELSE [w EXCEPT !.dirty[p] = TRUE]
       IN  PropagateDirtyStopsAtDirty(w1, p)

RECURSIVE PropagateDirtyToParent(_, _)
\* Node.propagateDirtyToParent
PropagateDirtyToParent(w, n) ==
  IF parent[n] = Null THEN w
  ELSE LET p == parent[n]
           w1 == IF ~w.dirty[p]
                   THEN IF dirtiedFunc[p]
                          THEN Invoke([w EXCEPT !.dirty[p] = TRUE], p)
                          ELSE [w EXCEPT !.dirty[p] = TRUE]
                   ELSE w
       IN  PropagateDirtyToParent(w1, p)

RECURSIVE Subtree(_)
\* the nodes a recursive walk over childList visits from n
Subtree(n) ==
  {n} \cup UNION {Subtree(childList[n][i]) : i \in 1..Len(childList[n])}

\* a calculateLayout that takes the declared direction whether or not an
\* argument is given
EffectiveDirectionDeclaredOnly(n, direction) ==
  IF styleCache[n].direction = "Inherit" THEN "LTR" ELSE styleCache[n].direction

\* the effective direction of calculateLayout: arg > style > LTR
EffectiveDirection(n, direction) ==
  IF direction # "undefined" THEN direction
  ELSE IF styleCache[n].direction = "Inherit" THEN "LTR"
  ELSE styleCache[n].direction

\* Node.getFlexDirection reads the engine's live style
GetFlexDirection(n) == ToYogaFlexDirection(taffyStyle[n].flex_direction)

\* NaN, outside the numbers the setters are given
NaN == -1

\* Node.parseToValue: a cached value as { unit, value }
ParseToValue(val) ==
  IF val.t = "undefined" THEN [unit |-> "Undefined", value |-> NaN]
  ELSE IF val.t = "auto" THEN [unit |-> "Auto", value |-> NaN]
  ELSE IF val.t = "number" THEN [unit |-> "Point", value |-> val.n]
  ELSE IF val.t = "percent" THEN [unit |-> "Percent", value |-> val.n]
  ELSE [unit |-> "Undefined", value |-> NaN]

\* the keys for which getMargin, getPadding and getBorder return early
CompoundKeys == {"All", "Horizontal", "Vertical"}

\* Node.getMargin
GetMargin(n, edge) ==
  IF edge \in CompoundKeys THEN [unit |-> "Undefined", value |-> NaN]
  ELSE ParseToValue(styleCache[n].margins[edge])

\* Node.getPadding
GetPadding(n, edge) ==
  IF edge \in CompoundKeys THEN [unit |-> "Undefined", value |-> NaN]
  ELSE ParseToValue(styleCache[n].paddings[edge])

\* Node.getBorder
GetBorder(n, edge) ==
  IF edge \in CompoundKeys THEN NaN
  ELSE IF styleCache[n].borders[edge] # Undefined THEN styleCache[n].borders[edge].n
  ELSE NaN

\* Node.getPosition: the cached inset, which setPosition stored already parsed
GetPosition(n, edge) ==
  IF edge \in CompoundKeys THEN [unit |-> "Undefined", value |-> NaN]
  ELSE ParseToValue(styleCache[n].insets[edge])

\* extractValue of getComputedMargin and getComputedPadding: Math.round of the
\* stored fraction times the basis, for a percentage
ExtractValue(val, basis) ==
  IF val.t = "Length" THEN val.n
  ELSE IF val.t = "Percent" THEN (val.n * basis + 50) \div 100
  ELSE 0

\* the side of the engine's rect that a computed getter reads for an edge
ComputedSide(n, rect, edge) ==
  CASE edge = "Left" -> rect.left
    [] edge = "Right" -> rect.right
    [] edge = "Top" -> rect.top
    [] edge = "Bottom" -> rect.bottom
    [] edge = "Start" ->
         IF styleCache[n].lastDirection = "RTL" THEN rect.right ELSE rect.left
    [] edge = "End" ->
         IF styleCache[n].lastDirection = "RTL" THEN rect.left ELSE rect.right
    [] OTHER -> rect.left

\* Node.getComputedMargin: a percentage is taken of the parent's width, or of
\* the node's own width where it has no parent
GetComputedMargin(n, edge) ==
  ExtractValue(ComputedSide(n, taffyStyle[n].margin, edge),
               IF parent[n] # Null /\ nodeId[parent[n]] # 0
                 THEN layoutWidth[parent[n]] ELSE layoutWidth[n])

\* Node.getComputedPadding: a percentage is taken of the node's own width
GetComputedPadding(n, edge) ==
  ExtractValue(ComputedSide(n, taffyStyle[n].padding, edge), layoutWidth[n])

\* the available sizes of the engine: "MaxContent" and { Definite: x }
MaxContent == [t |-> "MaxContent", n |-> 0]

Definite(x) == [t |-> "Definite", n |-> x]

\* the width and height arguments of calculateLayout besides numbers and
\* undefined: NaN and a string that is no number, such as "auto"
NaNValue == [t |-> "NaN", n |-> 0]

StrNonNumeric == [t |-> "string", n |-> 0]

\* an available size that is definite whatever the argument is
AvailableForAlwaysDefinite(arg) == Definite(arg.n)

\* one axis of availableSpace in calculateLayout: a missing argument takes the
\* default NaN, and isNaN holds of NaN and of what Number() turns into NaN
AvailableFor(arg) ==
  LET value == IF arg = Undefined THEN NaNValue ELSE arg
  IN  IF value.t = "NaN" \/ value.t = "string" THEN MaxContent ELSE Definite(value.n)

Idle == [pc |-> "idle", root |-> Null, arg |-> "undefined", direction |-> "LTR",
         availableSpace |-> [width |-> MaxContent, height |-> MaxContent],
         before |-> [n \in Nodes |-> "Row"]]

\* write the world back to the node fields
Commit(w) ==
  /\ taffyStyle' = w.style
  /\ styleCache' = w.cache
  /\ isDirty' = w.dirty
  /\ hasNewLayout' = w.newLayout
  /\ dirtiedLog' = w.log
  /\ dirtiedView' = w.view

(* ---- Initial states ---- *)
NoNodes ==
  /\ instanceCache = {}
  /\ nodeId = [n \in Nodes |-> 0]
  /\ nodeConfig = [n \in Nodes |-> 0]
  /\ taffyTree = [c \in Configs |-> [live |-> TRUE, issued |-> 0, nodes |-> {}]]
  /\ childList = [n \in Nodes |-> <<>>]
  /\ parent = [n \in Nodes |-> Null]
  /\ styleCache = [n \in Nodes |-> DefaultStyleCache]
  /\ taffyStyle = [n \in Nodes |-> DefaultTaffyStyle]
  /\ measureFunc = [n \in Nodes |-> FALSE]
  /\ dirtiedFunc = [n \in Nodes |-> FALSE]
  /\ isDirty = [n \in Nodes |-> FALSE]
  /\ hasNewLayout = [n \in Nodes |-> TRUE]
  /\ isReferenceBaseline = [n \in Nodes |-> FALSE]
  /\ layoutWidth = [n \in Nodes |-> 0]
  /\ dirtiedLog = <<>>
  /\ dirtiedView = <<>>
  /\ pass = Idle

Init == NoNodes

(* ---- Operations ---- *)
\* a node that has been constructed and whose handle is live in its tree: the
\* operations are called on such nodes
Usable(n) ==
  /\ nodeId[n] # 0
  /\ taffyTree[nodeConfig[n]].live
  /\ nodeId[n] \in taffyTree[nodeConfig[n]].nodes

\* Node.getNodeById: the node the map holds under id (Null for undefined)
GetNodeById(id) ==
  IF \E m \in instanceCache : nodeId[m] = id
    THEN CHOOSE m \in instanceCache : nodeId[m] = id
    ELSE Null

\* the constructor, called for Config c while its web-defaults flag is
\* useWebDefaults: the tree of c issues its next handle and the map takes the
\* node under that handle, in place of any node it held there
CreateIn(n, c, useWebDefaults) ==
  /\ pass.pc = "idle"
  /\ UNCHANGED isReferenceBaseline
  /\ UNCHANGED layoutWidth
  /\ nodeId[n] = 0
  /\ \A m \in Nodes : m < n => nodeId[m] # 0
  /\ taffyTree[c].live
  /\ LET id == taffyTree[c].issued + 1
     IN  /\ taffyTree' = [taffyTree EXCEPT ![c].issued = id, ![c].nodes = @ \cup {id}]
         /\ nodeId' = [nodeId EXCEPT ![n] = id]
         /\ nodeConfig' = [nodeConfig EXCEPT ![n] = c]
         /\ instanceCache' = {m \in instanceCache : nodeId[m] # id} \cup {n}
  /\ LET w0 == World
         \* setFlexDirection(Column)
         w1 == UpdateStyle([w0 EXCEPT !.cache[n].flexDirection = "Column"], n,
                 [w0.style[n] EXCEPT !.flex_direction = FromYogaFlexDirection("Column")])
         \* setAlignContent(FlexStart)
         w2 == UpdateStyle(w1, n, w1.style[n])
     IN  Commit(IF useWebDefaults THEN w0 ELSE w2)
  /\ UNCHANGED <<childList, parent, measureFunc, dirtiedFunc, pass>>

\* Node.create(): the constructor under the default Config, whose web-defaults
\* flag is useWebDefaults
Create(n, useWebDefaults) == CreateIn(n, 1, useWebDefaults)

\* what getFlexDirection returns on a node the constructor has just made: the
\* engine's default, or Column where the Config does not use web defaults
NewNodeFlexDirection(useWebDefaults) ==
  IF useWebDefaults THEN ToYogaFlexDirection(DefaultTaffyStyle.flex_direction)
  ELSE "Column"

\* an insertChild that puts the child at the end of the list
InsertChildAtEnd(n, child, index) ==
  /\ pass.pc = "idle"
  /\ UNCHANGED isReferenceBaseline
  /\ UNCHANGED layoutWidth
  /\ Usable(n) /\ Usable(child)
  /\ nodeConfig[n] = nodeConfig[child]
  /\ n \notin Subtree(child)
  /\ index \in 0..Len(childList[n])
  /\ childList' = [childList EXCEPT ![n] = Append(@, child)]
  /\ parent' = [parent EXCEPT ![child] = n]
  /\ dirtiedLog' = <<>>
  /\ dirtiedView' = <<>>
  /\ UNCHANGED <<instanceCache, nodeId, nodeConfig, taffyTree>>
  /\ UNCHANGED <<styleCache, taffyStyle, measureFunc, dirtiedFunc,
                 isDirty, hasNewLayout, pass>>

\* Node.insertChild, for a child of the same tree that is not an ancestor of n
InsertChild(n, child, index) ==
  /\ pass.pc = "idle"
  /\ UNCHANGED isReferenceBaseline
  /\ UNCHANGED layoutWidth
  /\ Usable(n) /\ Usable(child)
  /\ nodeConfig[n] = nodeConfig[child]
  /\ n \notin Subtree(child)
  /\ index \in 0..Len(childList[n])
  /\ childList' = [childList EXCEPT ![n] =
       SubSeq(@, 1, index) \o <<child>> \o SubSeq(@, index + 1, Len(@))]
  /\ parent' = [parent EXCEPT ![child] = n]
  /\ dirtiedLog' = <<>>
  /\ dirtiedView' = <<>>
  /\ UNCHANGED <<instanceCache, nodeId, nodeConfig, taffyTree>>
  /\ UNCHANGED <<styleCache, taffyStyle, measureFunc, dirtiedFunc,
                 isDirty, hasNewLayout, pass>>

\* Node.insertChild where the engine's insertChildAtIndex throws (a handle it
\* does not hold, a node of another tree): the exception leaves insertChild
\* before the list and the parent reference are written
InsertChildFailed(n, child, index) ==
  /\ pass.pc = "idle"
  /\ UNCHANGED isReferenceBaseline
  /\ UNCHANGED layoutWidth
  /\ Usable(n)
  /\ nodeId[child] # 0
  /\ ~Usable(child) \/ nodeConfig[n] # nodeConfig[child]
  /\ dirtiedLog' = <<>>
  /\ dirtiedView' = <<>>
  /\ UNCHANGED <<instanceCache, nodeId, nodeConfig, taffyTree>>
  /\ UNCHANGED <<childList, parent, styleCache, taffyStyle, measureFunc,
                 dirtiedFunc, isDirty, hasNewLayout, pass>>

\* Node.setFlexDirection
SetFlexDirection(n, flexDirection) ==
  /\ pass.pc = "idle"
  /\ UNCHANGED isReferenceBaseline
  /\ UNCHANGED layoutWidth
  /\ Usable(n)
  /\ LET w0 == [World EXCEPT !.cache[n].flexDirection = flexDirection]
     IN  Commit(UpdateStyle(w0, n,
           [w0.style[n] EXCEPT !.flex_direction = FromYogaFlexDirection(flexDirection)]))
  /\ UNCHANGED <<instanceCache, nodeId, nodeConfig, taffyTree>>
  /\ UNCHANGED <<childList, parent, measureFunc, dirtiedFunc, pass>>

\* Node.setDirection
SetDirection(n, direction) ==
  /\ pass.pc = "idle"
  /\ UNCHANGED isReferenceBaseline
  /\ UNCHANGED layoutWidth
  /\ Usable(n)
  /\ styleCache' = [styleCache EXCEPT ![n].direction = direction]
  /\ dirtiedLog' = <<>>
  /\ dirtiedView' = <<>>
  /\ UNCHANGED <<instanceCache, nodeId, nodeConfig, taffyTree>>
  /\ UNCHANGED <<childList, parent, taffyStyle, measureFunc,
                 dirtiedFunc, isDirty, hasNewLayout, pass>>

\* the body of Node.setMargin
SetMarginOn(w, n, edge, margin) ==
  ResolveMarginsToTaffy([w EXCEPT !.cache[n].margins = WriteEdge(@, edge, margin)], n)

\* the body of Node.setPadding
SetPaddingOn(w, n, edge, padding) ==
  ResolvePaddingsToTaffy([w EXCEPT !.cache[n].paddings = WriteEdge(@, edge, padding)], n)

\* the body of Node.setBorder
SetBorderOn(w, n, edge, borderWidth) ==
  ResolveBordersToTaffy([w EXCEPT !.cache[n].borders = WriteEdge(@, edge, borderWidth)], n)

\* the body of Node.setPosition
SetPositionOn(w, n, edge, position) ==
  LET val == ParseValue(IF position = Undefined THEN StrAuto ELSE position)
  IN  SyncStyle([w EXCEPT !.cache[n].insets = WriteInset(@, edge, val)], n)

\* JSON.parse(JSON.stringify(v)) of a cached edge value: a number that is NaN
\* is written as null (the n of a null is NaN - 1, no number a setter is
\* given), also inside { Length } and { Percent }; strings and numbers come
\* back as they were, and an undefined entry is left out and reads undefined
JsonValue(v) ==
  IF v.t = "number" /\ v.n = NaN THEN [t |-> "null", n |-> NaN - 1]
  ELSE IF v.t \in {"Length", "Percent"} /\ v.n = NaN THEN [v EXCEPT !.n = NaN - 1]
  ELSE v

\* Node.copyStyle: the JSON copy of the source's cache replaces the node's, the
\* engine style is written from it, and the flex direction of the source's
\* engine style is copied
CopyStyle(n, node) ==
  /\ pass.pc = "idle"
  /\ UNCHANGED isReferenceBaseline
  /\ UNCHANGED layoutWidth
  /\ Usable(n) /\ Usable(node)
  /\ LET copy == [World.cache[node] EXCEPT
                   !.insets = [k \in InsetKeys |-> JsonValue(@[k])],
                   !.borders = [k \in EdgeKeys |-> JsonValue(@[k])],
                   !.margins = [k \in EdgeKeys |-> JsonValue(@[k])],
                   !.paddings = [k \in EdgeKeys |-> JsonValue(@[k])]]
         w0 == [World EXCEPT !.cache[n] = copy]
         w1 == SyncStyle(w0, n)
         w2 == ResolveBordersToTaffy(w1, n)
         w3 == ResolveMarginsToTaffy(w2, n)
         w4 == ResolvePaddingsToTaffy(w3, n)
     IN  Commit(UpdateStyle(w4, n,
           [w4.style[n] EXCEPT !.flex_direction = w4.style[node].flex_direction]))
  /\ UNCHANGED <<instanceCache, nodeId, nodeConfig, taffyTree>>
  /\ UNCHANGED <<childList, parent, measureFunc, dirtiedFunc, pass>>

\* Node.setMargin
SetMargin(n, edge, margin) ==
  /\ pass.pc = "idle"
  /\ UNCHANGED isReferenceBaseline
  /\ UNCHANGED layoutWidth
  /\ Usable(n)
  /\ Commit(SetMarginOn(World, n, edge, margin))
  /\ UNCHANGED <<instanceCache, nodeId, nodeConfig, taffyTree>>
  /\ UNCHANGED <<childList, parent, measureFunc, dirtiedFunc, pass>>

\* Node.setPadding
SetPadding(n, edge, padding) ==
  /\ pass.pc = "idle"
  /\ UNCHANGED isReferenceBaseline
  /\ UNCHANGED layoutWidth
  /\ Usable(n)
  /\ Commit(SetPaddingOn(World, n, edge, padding))
  /\ UNCHANGED <<instanceCache, nodeId, nodeConfig, taffyTree>>
  /\ UNCHANGED <<childList, parent, measureFunc, dirtiedFunc, pass>>

\* Node.setBorder
SetBorder(n, edge, borderWidth) ==
  /\ pass.pc = "idle"
  /\ UNCHANGED isReferenceBaseline
  /\ UNCHANGED layoutWidth
  /\ Usable(n)
  /\ Commit(SetBorderOn(World, n, edge, borderWidth))
  /\ UNCHANGED <<instanceCache, nodeId, nodeConfig, taffyTree>>
  /\ UNCHANGED <<childList, parent, measureFunc, dirtiedFunc, pass>>

\* Node.setPosition
SetPosition(n, edge, position) ==
  /\ pass.pc = "idle"
  /\ UNCHANGED isReferenceBaseline
  /\ UNCHANGED layoutWidth
  /\ Usable(n)
  /\ Commit(SetPositionOn(World, n, edge, position))
  /\ UNCHANGED <<instanceCache, nodeId, nodeConfig, taffyTree>>
  /\ UNCHANGED <<childList, parent, measureFunc, dirtiedFunc, pass>>

\* Node.setPositionType
SetPositionType(n, positionType) ==
  /\ pass.pc = "idle"
  /\ UNCHANGED isReferenceBaseline
  /\ UNCHANGED layoutWidth
  /\ Usable(n)
  /\ Commit(SyncStyle([World EXCEPT !.cache[n].position = positionType], n))
  /\ UNCHANGED <<instanceCache, nodeId, nodeConfig, taffyTree>>
  /\ UNCHANGED <<childList, parent, measureFunc, dirtiedFunc, pass>>

\* Node.setMeasureFunc (present: a function; absent: null)
SetMeasureFunc(n, present) ==
  /\ pass.pc = "idle"
  /\ UNCHANGED isReferenceBaseline
  /\ UNCHANGED layoutWidth
  /\ Usable(n)
  /\ measureFunc' = [measureFunc EXCEPT ![n] = present]
  /\ dirtiedLog' = <<>>
  /\ dirtiedView' = <<>>
  /\ UNCHANGED <<instanceCache, nodeId, nodeConfig, taffyTree>>
  /\ UNCHANGED <<childList, parent, styleCache, taffyStyle,
                 dirtiedFunc, isDirty, hasNewLayout, pass>>

\* Node.setDirtiedFunc
SetDirtiedFunc(n, present) ==
  /\ pass.pc = "idle"
  /\ UNCHANGED isReferenceBaseline
  /\ UNCHANGED layoutWidth
  /\ Usable(n)
  /\ dirtiedFunc' = [dirtiedFunc EXCEPT ![n] = present]
  /\ dirtiedLog' = <<>>
  /\ dirtiedView' = <<>>
  /\ UNCHANGED <<instanceCache, nodeId, nodeConfig, taffyTree>>
  /\ UNCHANGED <<childList, parent, styleCache, taffyStyle,
                 measureFunc, isDirty, hasNewLayout, pass>>

\* Node.setIsReferenceBaseline
SetIsReferenceBaseline(n, value) ==
  /\ pass.pc = "idle"
  /\ Usable(n)
  /\ isReferenceBaseline' = [isReferenceBaseline EXCEPT ![n] = value]
  /\ UNCHANGED layoutWidth
  /\ dirtiedLog' = <<>>
  /\ dirtiedView' = <<>>
  /\ UNCHANGED <<instanceCache, nodeId, nodeConfig, taffyTree>>
  /\ UNCHANGED <<childList, parent, styleCache, taffyStyle, measureFunc,
                 dirtiedFunc, isDirty, hasNewLayout, pass>>

\* Node.setBaselineFunc: an empty body
SetBaselineFunc(n) ==
  /\ pass.pc = "idle"
  /\ UNCHANGED isReferenceBaseline
  /\ UNCHANGED layoutWidth
  /\ Usable(n)
  /\ dirtiedLog' = <<>>
  /\ dirtiedView' = <<>>
  /\ UNCHANGED <<instanceCache, nodeId, nodeConfig, taffyTree>>
  /\ UNCHANGED <<childList, parent, styleCache, taffyStyle, measureFunc,
                 dirtiedFunc, isDirty, hasNewLayout, pass>>

\* a setAlwaysFormsContainingBlock that goes through updateStyle as the style
\* setters do
SetAlwaysFormsContainingBlockStyled(n, value) ==
  /\ pass.pc = "idle"
  /\ UNCHANGED isReferenceBaseline
  /\ UNCHANGED layoutWidth
  /\ Usable(n)
  /\ Commit(UpdateStyle(World, n, World.style[n]))
  /\ UNCHANGED <<instanceCache, nodeId, nodeConfig, taffyTree>>
  /\ UNCHANGED <<childList, parent, measureFunc, dirtiedFunc, pass>>

\* Node.setAlwaysFormsContainingBlock: an empty body
SetAlwaysFormsContainingBlock(n, value) ==
  /\ pass.pc = "idle"
  /\ UNCHANGED isReferenceBaseline
  /\ UNCHANGED layoutWidth
  /\ Usable(n)
  /\ dirtiedLog' = <<>>
  /\ dirtiedView' = <<>>
  /\ UNCHANGED <<instanceCache, nodeId, nodeConfig, taffyTree>>
  /\ UNCHANGED <<childList, parent, styleCache, taffyStyle, measureFunc,
                 dirtiedFunc, isDirty, hasNewLayout, pass>>

\* a markDirty that does not look for a measurement callback
MarkDirtyUnconditional(n) ==
  /\ pass.pc = "idle"
  /\ UNCHANGED isReferenceBaseline
  /\ UNCHANGED layoutWidth
  /\ Usable(n)
  /\ Commit(PropagateDirtyToParent(MarkDirtyInternal(World, n), n))
  /\ UNCHANGED <<instanceCache, nodeId, nodeConfig, taffyTree>>
  /\ UNCHANGED <<childList, parent, measureFunc, dirtiedFunc, pass>>

\* Node.markDirty
MarkDirty(n) ==
  /\ pass.pc = "idle"
  /\ UNCHANGED isReferenceBaseline
  /\ UNCHANGED layoutWidth
  /\ Usable(n)
  /\ Commit(IF measureFunc[n]
              THEN PropagateDirtyToParent(MarkDirtyInternal(World, n), n)
              ELSE World)
  /\ UNCHANGED <<instanceCache, nodeId, nodeConfig, taffyTree>>
  /\ UNCHANGED <<childList, parent, measureFunc, dirtiedFunc, pass>>

\* an acknowledgment that flips the flag
MarkLayoutSeenToggling(n) ==
  /\ pass.pc = "idle"
  /\ UNCHANGED isReferenceBaseline
  /\ UNCHANGED layoutWidth
  /\ Usable(n)
  /\ hasNewLayout' = [hasNewLayout EXCEPT ![n] = ~@]
  /\ dirtiedLog' = <<>>
  /\ dirtiedView' = <<>>
  /\ UNCHANGED <<instanceCache, nodeId, nodeConfig, taffyTree>>
  /\ UNCHANGED <<childList, parent, styleCache, taffyStyle,
                 measureFunc, dirtiedFunc, isDirty, pass>>

\* Node.markLayoutSeen
MarkLayoutSeen(n) ==
  /\ pass.pc = "idle"
  /\ UNCHANGED isReferenceBaseline
  /\ UNCHANGED layoutWidth
  /\ Usable(n)
  /\ hasNewLayout' = [hasNewLayout EXCEPT ![n] = FALSE]
  /\ dirtiedLog' = <<>>
  /\ dirtiedView' = <<>>
  /\ UNCHANGED <<instanceCache, nodeId, nodeConfig, taffyTree>>
  /\ UNCHANGED <<childList, parent, styleCache, taffyStyle,
                 measureFunc, dirtiedFunc, isDirty, pass>>

\* Node.calculateLayout up to the engine call: resolve the direction, re-resolve the
\* edges, mirror when right-to-left, build the available space
CalculateLayoutIn(n, width, height, direction) ==
  /\ pass.pc = "idle"
  /\ UNCHANGED isReferenceBaseline
  /\ UNCHANGED layoutWidth
  /\ Usable(n)
  /\ LET effectiveDirection == EffectiveDirection(n, direction)
         w0 == [World EXCEPT !.cache[n].lastDirection = effectiveDirection]
         w1 == ResolveBordersToTaffy(w0, n)
         w2 == ResolveMarginsToTaffy(w1, n)
         w3 == ResolvePaddingsToTaffy(w2, n)
         w4 == ResolveInsetsToTaffy(w3, n)
         w5 == IF effectiveDirection = "RTL" THEN ApplyRTLFlip(w4, n) ELSE w4
     IN  /\ Commit(w5)
         /\ pass' = [pc |-> "computing", root |-> n, arg |-> direction,
                     direction |-> effectiveDirection,
                     availableSpace |-> [width |-> AvailableFor(width),
                                         height |-> AvailableFor(height)],
                     before |-> [m \in Nodes |-> GetFlexDirection(m)]]
  /\ UNCHANGED <<instanceCache, nodeId, nodeConfig, taffyTree>>
  /\ UNCHANGED <<childList, parent, measureFunc, dirtiedFunc>>

\* calculateLayout without width and height
CalculateLayout(n, direction) == CalculateLayoutIn(n, Undefined, Undefined, direction)

\* the engine's computeLayoutWithMeasure returns, having laid each node of the
\* subtree out as wide as width says: restore, then mark the subtree
LayoutCompletedWith(width) ==
  /\ pass.pc = "computing"
  /\ UNCHANGED isReferenceBaseline
  /\ layoutWidth' = [m \in Nodes |->
       IF m \in Subtree(pass.root) THEN width[m] ELSE layoutWidth[m]]
  /\ LET w0 == World
         w1 == IF pass.direction = "RTL" THEN RestoreFlexDirection(w0, pass.root) ELSE w0
     IN  Commit(MarkNewLayoutRecursive(w1, pass.root))
  /\ pass' = Idle
  /\ UNCHANGED <<instanceCache, nodeId, nodeConfig, taffyTree>>
  /\ UNCHANGED <<childList, parent, measureFunc, dirtiedFunc>>

\* a pass that completes on nodes without content, which the engine lays out
\* with no width
LayoutCompleted == LayoutCompletedWith([m \in Nodes |-> 0])

\* the engine's computeLayoutWithMeasure (or a measure function it calls) throws:
\* the exception leaves calculateLayout at the call
LayoutFailed ==
  /\ pass.pc = "computing"
  /\ UNCHANGED isReferenceBaseline
  /\ UNCHANGED layoutWidth
  /\ pass' = Idle
  /\ dirtiedLog' = <<>>
  /\ dirtiedView' = <<>>
  /\ UNCHANGED <<instanceCache, nodeId, nodeConfig, taffyTree>>
  /\ UNCHANGED <<childList, parent, styleCache, taffyStyle,
                 measureFunc, dirtiedFunc, isDirty, hasNewLayout>>

\* Node.removeChild: the first occurrence of the child leaves the list and the
\* child's parent reference is cleared; for a child the node does not list
\* (indexOf is -1, or the engine's removeChild has thrown) nothing is touched
RemoveChild(n, child) ==
  /\ pass.pc = "idle"
  /\ UNCHANGED isReferenceBaseline
  /\ UNCHANGED layoutWidth
  /\ Usable(n) /\ Usable(child)
  /\ IF \E i \in 1..Len(childList[n]) : childList[n][i] = child
       THEN LET index == CHOOSE i \in 1..Len(childList[n]) :
                           /\ childList[n][i] = child
                           /\ \A j \in 1..(i - 1) : childList[n][j] # child
            IN  /\ childList' = [childList EXCEPT ![n] =
                      SubSeq(@, 1, index - 1) \o SubSeq(@, index + 1, Len(@))]
                /\ parent' = [parent EXCEPT ![child] = Null]
       ELSE UNCHANGED <<childList, parent>>
  /\ dirtiedLog' = <<>>
  /\ dirtiedView' = <<>>
  /\ UNCHANGED <<instanceCache, nodeId, nodeConfig, taffyTree>>
  /\ UNCHANGED <<styleCache, taffyStyle, measureFunc, dirtiedFunc, isDirty,
                 hasNewLayout, pass>>

\* what free() on each node of a set leaves of the trees
TreesWithout(freed) ==
  [c \in Configs |->
     [taffyTree[c] EXCEPT !.nodes = @ \ {nodeId[m] : m \in {k \in freed : nodeConfig[k] = c}}]]

\* what free() on each node of a set leaves of the map: the entries under their ids
InstanceCacheWithout(freed) ==
  {m \in instanceCache : nodeId[m] \notin {nodeId[k] : k \in freed}}

\* Node.free: the handle leaves its tree and the entry under the id leaves the
\* map; child lists and parent references stay as they are
Free(n) ==
  /\ pass.pc = "idle"
  /\ UNCHANGED isReferenceBaseline
  /\ UNCHANGED layoutWidth
  /\ Usable(n)
  /\ taffyTree' = TreesWithout({n})
  /\ instanceCache' = InstanceCacheWithout({n})
  /\ dirtiedLog' = <<>>
  /\ dirtiedView' = <<>>
  /\ UNCHANGED <<nodeId, nodeConfig, childList, parent, styleCache, taffyStyle,
                 measureFunc, dirtiedFunc, isDirty, hasNewLayout, pass>>

RECURSIVE FreeOrder(_)
RECURSIVE FreeOrderOfChildren(_, _)
\* a freeRecursive that frees the node and leaves its children
FreeOrderNodeOnly(n) == <<n>>

\* the nodes freeRecursive frees, in order: the children's, then the node
FreeOrder(n) == FreeOrderOfChildren(n, 1) \o <<n>>

FreeOrderOfChildren(n, i) ==
  IF i > Len(childList[n]) THEN <<>>
  ELSE FreeOrder(childList[n][i]) \o FreeOrderOfChildren(n, i + 1)

\* Node.freeRecursive, where each node it reaches is live and reached once
FreeRecursive(n) ==
  /\ pass.pc = "idle"
  /\ UNCHANGED isReferenceBaseline
  /\ UNCHANGED layoutWidth
  /\ LET order == FreeOrder(n)
         freed == {order[i] : i \in 1..Len(order)}
     IN  /\ \A m \in freed : Usable(m)
         /\ Cardinality(freed) = Len(order)
         /\ taffyTree' = TreesWithout(freed)
         /\ instanceCache' = InstanceCacheWithout(freed)
  /\ dirtiedLog' = <<>>
  /\ dirtiedView' = <<>>
  /\ UNCHANGED <<nodeId, nodeConfig, childList, parent, styleCache, taffyStyle,
                 measureFunc, dirtiedFunc, isDirty, hasNewLayout, pass>>

\* Node.reset
Reset(n) ==
  /\ pass.pc = "idle"
  /\ UNCHANGED isReferenceBaseline
  /\ UNCHANGED layoutWidth
  /\ Usable(n)
  /\ taffyStyle' = [taffyStyle EXCEPT ![n] = DefaultTaffyStyle]
  /\ measureFunc' = [measureFunc EXCEPT ![n] = FALSE]
  /\ dirtiedFunc' = [dirtiedFunc EXCEPT ![n] = FALSE]
  /\ isDirty' = [isDirty EXCEPT ![n] = FALSE]
  /\ hasNewLayout' = [hasNewLayout EXCEPT ![n] = TRUE]
  /\ styleCache' = [styleCache EXCEPT ![n] = DefaultStyleCache]
  /\ childList' = [childList EXCEPT ![n] = <<>>]
  /\ dirtiedLog' = <<>>
  /\ dirtiedView' = <<>>
  /\ UNCHANGED <<instanceCache, nodeId, nodeConfig, taffyTree, parent, pass>>

\* Config.free / Config.destroy on a Config made by Config.create: its tree is
\* freed, with every handle in it
ConfigFree(c) ==
  /\ pass.pc = "idle"
  /\ UNCHANGED isReferenceBaseline
  /\ UNCHANGED layoutWidth
  /\ c # 1
  /\ taffyTree[c].live
  /\ taffyTree' = [taffyTree EXCEPT ![c].live = FALSE, ![c].nodes = {}]
  /\ dirtiedLog' = <<>>
  /\ dirtiedView' = <<>>
  /\ UNCHANGED <<instanceCache, nodeId, nodeConfig, childList, parent, styleCache,
                 taffyStyle, measureFunc, dirtiedFunc, isDirty, hasNewLayout, pass>>

(* ---- Inputs of the style specification ---- *)
\* every edge key is given a length of its own, so that a resolved side tells
\* which key it came from
OwnLength(edge) ==
  CASE edge = "All" -> 5
    [] edge = "Vertical" -> 6
    [] edge = "Horizontal" -> 8
    [] edge = "Start" -> 12
    [] edge = "End" -> 13
    [] edge = "Left" -> 20
    [] edge = "Right" -> 21
    [] edge = "Top" -> 22
    [] edge = "Bottom" -> 23

\* "auto" and percentages are given to one key of each precedence level
\* (All, Horizontal, Start, Left); the other keys take a length or undefined
RichKeys == {"All", "Horizontal", "Start", "Left"}

MarginInputs(edge) ==
  {Num(OwnLength(edge)), Undefined} \cup (IF edge \in RichKeys THEN {StrAuto} ELSE {})

PaddingInputs(edge) ==
  {Num(OwnLength(edge)), Undefined}
    \cup (IF edge \in RichKeys THEN {StrPercent(OwnLength(edge))} ELSE {})

BorderInputs(edge) == {Num(OwnLength(edge)), Undefined}

PositionInputs(edge) ==
  {Num(OwnLength(edge)), StrAuto} \cup (IF edge \in RichKeys THEN {Undefined} ELSE {})

\* the style specification exercises one property family of a node at a time:
\* a family's setters are taken while the caches of the other families are untouched
OnlyFamily(n, family) ==
  /\ family = "margins" \/ styleCache[n].margins = DefaultStyleCache.margins
  /\ family = "paddings" \/ styleCache[n].paddings = DefaultStyleCache.paddings
  /\ family = "borders" \/ styleCache[n].borders = DefaultStyleCache.borders
  /\ family = "insets"
       \/ (/\ styleCache[n].insets = DefaultStyleCache.insets
           /\ styleCache[n].position = DefaultStyleCache.position)

\* Node.create() under the default Config
StyleCreate == Create(1, FALSE)

StyleSetMargin ==
  \E edge \in EdgeKeys : \E v \in MarginInputs(edge) :
    OnlyFamily(1, "margins") /\ SetMargin(1, edge, v)

StyleSetPadding ==
  \E edge \in EdgeKeys : \E v \in PaddingInputs(edge) :
    OnlyFamily(1, "paddings") /\ SetPadding(1, edge, v)

StyleSetBorder ==
  \E edge \in EdgeKeys : \E v \in BorderInputs(edge) :
    OnlyFamily(1, "borders") /\ SetBorder(1, edge, v)

StyleSetPosition ==
  \E edge \in EdgeKeys : \E v \in PositionInputs(edge) :
    OnlyFamily(1, "insets") /\ SetPosition(1, edge, v)

StyleSetPositionType ==
  \E p \in PositionTypes : OnlyFamily(1, "insets") /\ SetPositionType(1, p)

StyleCalculateLayout == \E d \in {"LTR", "RTL"} : CalculateLayout(1, d)

NextStyle ==
  \/ StyleCreate
  \/ StyleSetMargin
  \/ StyleSetPadding
  \/ StyleSetBorder
  \/ StyleSetPosition
  \/ StyleSetPositionType
  \/ StyleCalculateLayout
  \/ LayoutCompleted
  \/ LayoutFailed

\* one node and its edge setters, under both writing directions
SpecStyle == Init /\ [][NextStyle]_vars

(* ======================= Edge resolution (C1 - C3) ======================= *)
Sides == {"left", "right", "top", "bottom"}

\* the engine value that stands for a value given to a setter
EngineValue(v) ==
  CASE v.t = "number" -> TLength(v.n)
    [] v.t = "percent" -> TPercent(v.n)
    [] v.t = "auto" -> TAuto

FamilyDefault(family) == IF family = "margins" THEN TAuto ELSE TLength(0)

\* the keys that can supply a side, strongest first
KeysFor(side, isRTL) ==
  CASE side = "left" -> <<"Left", IF isRTL THEN "End" ELSE "Start", "Horizontal", "All">>
    [] side = "right" -> <<"Right", IF isRTL THEN "Start" ELSE "End", "Horizontal", "All">>
    [] side = "top" -> <<"Top", "Vertical", "All">>
    [] side = "bottom" -> <<"Bottom", "Vertical", "All">>

\* the reference resolution of one side: the strongest key that holds a value
ReferenceSide(edges, family, side, isRTL) ==
  LET keys == KeysFor(side, isRTL)
      held == {i \in 1..Len(keys) : edges[keys[i]] # Undefined}
      first == CHOOSE i \in held : \A j \in held : i <= j
  IN  IF held = {} THEN FamilyDefault(family) ELSE EngineValue(edges[keys[first]])

ReferenceRect(edges, family, isRTL) ==
  [side \in Sides |-> ReferenceSide(edges, family, side, isRTL)]

\* C1: after any setMargin / setPadding / setBorder call (a step that writes a key of
\* that family's cache) the four physical values the engine holds for the family
\* equal the reference resolution of the node's cache under its resolved direction:
\* family default, then All, then Horizontal / Vertical, then Start / End by
\* direction, then Left / Right / Top / Bottom; "auto" counts as a set value.
C1_EdgePrecedence ==
  [][\A n \in Nodes :
       /\ styleCache'[n].margins # styleCache[n].margins
            => taffyStyle'[n].margin =
                 ReferenceRect(styleCache'[n].margins, "margins",
                               styleCache'[n].lastDirection = "RTL")
       /\ styleCache'[n].paddings # styleCache[n].paddings
            => taffyStyle'[n].padding =
                 ReferenceRect(styleCache'[n].paddings, "paddings",
                               styleCache'[n].lastDirection = "RTL")
       /\ styleCache'[n].borders # styleCache[n].borders
            => taffyStyle'[n].border =
                 ReferenceRect(styleCache'[n].borders, "borders",
                               styleCache'[n].lastDirection = "RTL")]_vars

\* All=5, Horizontal=8, Start=12, Left=20 under LTR is held as left=20, right=8,
\* top=5, bottom=5
C1_Witness ==
  /\ 1 \in instanceCache
  /\ pass.pc = "idle"
  /\ styleCache[1].lastDirection = "LTR"
  /\ styleCache[1].margins =
       [k \in EdgeKeys |->
          IF k \in {"All", "Horizontal", "Start", "Left"}
            THEN Num(OwnLength(k)) ELSE Undefined]
  /\ taffyStyle[1].margin = Rect(TLength(20), TLength(8), TLength(5), TLength(5))

\* C2 (as claimed): whenever the inset cache holds a length for Left or Right, the
\* engine holds that value for that side, whatever Start and End hold.
C2_PhysicalInsetWins ==
  \A n \in instanceCache :
    styleCache[n].position # "Static" =>
      /\ styleCache[n].insets["Left"].t \in {"Length", "Percent"}
           => taffyStyle[n].inset.left = styleCache[n].insets["Left"]
      /\ styleCache[n].insets["Right"].t \in {"Length", "Percent"}
           => taffyStyle[n].inset.right = styleCache[n].insets["Right"]

FamilyInputs(family, edge) ==
  CASE family = "margins" -> MarginInputs(edge)
    [] family = "paddings" -> PaddingInputs(edge)
    [] family = "borders" -> BorderInputs(edge)
    [] family = "insets" -> PositionInputs(edge)

\* the body of the family's setter
SetEdgeOn(w, n, family, edge, v) ==
  CASE family = "margins" -> SetMarginOn(w, n, edge, v)
    [] family = "paddings" -> SetPaddingOn(w, n, edge, v)
    [] family = "borders" -> SetBorderOn(w, n, edge, v)
    [] family = "insets" -> SetPositionOn(w, n, edge, v)

\* C3 (as claimed): for every family and any two set calls on two different edge
\* keys, the engine holds the same physical values whichever call is made first.
C3_OrderIndependent ==
  \A n \in instanceCache :
    \A family \in {"margins", "paddings", "borders", "insets"} :
      \A e1 \in EdgeKeys : \A e2 \in EdgeKeys \ {e1} :
        \A v1 \in FamilyInputs(family, e1) : \A v2 \in FamilyInputs(family, e2) :
          SetEdgeOn(SetEdgeOn(World, n, family, e1, v1), n, family, e2, v2).style[n]
            = SetEdgeOn(SetEdgeOn(World, n, family, e2, v2), n, family, e1, v1).style[n]


(* ---- Trees: inputs shared by the specifications over several nodes ---- *)
\* handles are issued in increasing order and a parent is created before its
\* children, so a child joins a node with a smaller handle; it joins one parent
TreeInsertChild ==
  \E n \in Nodes : \E child \in Nodes : \E index \in 0..Len(childList[n]) :
    n < child /\ parent[child] = Null /\ InsertChild(n, child, index)

(* ---- Direction specification: declared directions, one logical margin ---- *)
NextDirection ==
  \/ \E n \in Nodes : Create(n, FALSE)
  \/ TreeInsertChild
  \/ \E n \in Nodes : SetDirection(n, "RTL")
  \/ \E n \in Nodes : SetMargin(n, "Start", Num(OwnLength("Start")))
  \/ \E n \in Nodes : \E d \in {"undefined", "LTR", "RTL"} : CalculateLayout(n, d)
  \/ LayoutCompleted
  \/ LayoutFailed

\* trees whose nodes declare directions and set a Start margin, laid out with and
\* without a direction argument
SpecDirection == Init /\ [][NextDirection]_vars

(* ---- The layout pass and the writing direction (C4, C8) ---- *)
\* what the resolver gives for a cache under a direction, family by family
ResolvedUnder(cache, isRTL) ==
  [margin |-> ResolveMargins(cache.margins, isRTL),
   padding |-> ResolvePaddings(cache.paddings, isRTL),
   border |-> ResolveBorders(cache.borders, isRTL),
   inset |-> IF cache.position = "Static"
               THEN Rect(TAuto, TAuto, TAuto, TAuto)
               ELSE ResolveInsets(cache.insets, isRTL)]

\* C4: when calculateLayout completes with effective direction d, every node of
\* the subtree (the root and every descendant) has engine margin, padding, border
\* and inset equal to the resolution of its current cache under d, even if no edge
\* value changed since the previous pass. It is stated for the families in which
\* the node has set a key, so that the engine's own defaults play no part.
C4_PassResolvesAllFamilies ==
  [][LayoutCompleted =>
       \A n \in Subtree(pass.root) :
         LET cache == styleCache'[n]
             resolved == ResolvedUnder(cache, pass.direction = "RTL")
         IN  /\ cache.margins # DefaultStyleCache.margins
                  => taffyStyle'[n].margin = resolved.margin
             /\ cache.paddings # DefaultStyleCache.paddings
                  => taffyStyle'[n].padding = resolved.padding
             /\ cache.borders # DefaultStyleCache.borders
                  => taffyStyle'[n].border = resolved.border
             /\ cache.insets # DefaultStyleCache.insets
                  => taffyStyle'[n].inset = resolved.inset]_vars

\* the direction argument when one is given, otherwise the root's declared
\* direction, otherwise left to right
DirectionOfPass ==
  IF pass.arg # "undefined" THEN pass.arg
  ELSE IF styleCache[pass.root].direction # "Inherit"
         THEN styleCache[pass.root].direction
         ELSE "LTR"

\* C8: the effective direction of a pass is the direction argument when one is
\* given, otherwise the pass root's declared direction, otherwise (declared
\* Inherit) LTR; after the pass every node of the subtree has last-resolved
\* direction equal to it, whatever direction the node itself declared.
C8_EffectiveDirection ==
  [][LayoutCompleted =>
       \A n \in Subtree(pass.root) :
         styleCache'[n].lastDirection = DirectionOfPass]_vars

\* a chain 1 - 2 - 3 laid out from node 1 with no argument: node 1 declares RTL,
\* its descendants declare nothing and were resolved right to left
C8_Witness ==
  /\ pass.pc = "idle"
  /\ childList[1] = <<2>> /\ childList[2] = <<3>>
  /\ styleCache[1].direction = "RTL"
  /\ styleCache[2].direction = "Inherit" /\ styleCache[3].direction = "Inherit"
  /\ \A n \in {1, 2, 3} : styleCache[n].lastDirection = "RTL" /\ ~isDirty[n]

(* ---- Flip specification: flex directions under both Configs ---- *)
NextFlip ==
  \/ \E n \in Nodes : \E useWebDefaults \in BOOLEAN : Create(n, useWebDefaults)
  \/ TreeInsertChild
  \/ \E n \in Nodes : \E fd \in FlexDirections : SetFlexDirection(n, fd)
  \/ \E n \in Nodes : \E d \in {"LTR", "RTL"} : parent[n] = Null /\ CalculateLayout(n, d)
  \/ LayoutCompleted
  \/ LayoutFailed

\* trees of nodes created with and without web defaults, whose flex directions are
\* set and which are laid out left to right and right to left
SpecFlip == Init /\ [][NextFlip]_vars

(* ---- The right-to-left mirror (C5 - C7) ---- *)
\* C5: if the engine's layout computation (or a measurement callback it invokes)
\* fails during an RTL pass, then when calculateLayout returns control to the
\* caller every node of the subtree has its engine flex direction equal to its
\* canonical value: none is left mirrored.
C5_RestoredAfterFailure ==
  [][(LayoutFailed /\ pass.direction = "RTL") =>
       \A n \in Subtree(pass.root) :
         taffyStyle'[n].flex_direction
           = FromYogaFlexDirection(styleCache'[n].flexDirection)]_vars

\* C6: for every node of the subtree, under any Config and whether or not
\* setFlexDirection was ever called on it, getFlexDirection after a completed
\* calculateLayout (LTR or RTL) returns what it returned immediately before the
\* pass.
C6_PassNotObservable ==
  [][LayoutCompleted =>
       \A n \in Subtree(pass.root) : GetFlexDirection(n)' = pass.before[n]]_vars

\* C7: when the engine computation is invoked in a pass whose effective direction
\* is RTL, every node of the subtree whose flex direction was set to Row has live
\* engine value RowReverse, one set to RowReverse has Row, and one set to Column
\* or ColumnReverse has its live value unchanged; in an LTR pass no node's live
\* flex direction is changed at all. (A canonical Row or RowReverse can only come
\* from setFlexDirection; a canonical Column or ColumnReverse was set by it when
\* the engine held the same value as the pass began.)
C7_MirroredAtEngineCall ==
  pass.pc = "computing" =>
    /\ pass.direction = "RTL" =>
         \A n \in Subtree(pass.root) :
           LET canonical == styleCache[n].flexDirection
               live == taffyStyle[n].flex_direction
           IN  /\ canonical = "Row" => live = "RowReverse"
               /\ canonical = "RowReverse" => live = "Row"
               /\ (canonical \in {"Column", "ColumnReverse"}
                     /\ pass.before[n] = canonical) => live = pass.before[n]
    /\ pass.direction = "LTR" =>
         \A n \in Nodes : GetFlexDirection(n) = pass.before[n]

\* an RTL pass on node 1 at the engine call: its child 2 was set to Row and is
\* mirrored, its child 3 was set to RowReverse and is mirrored back, node 1 was
\* set to ColumnReverse and is untouched
C7_Witness ==
  /\ pass.pc = "computing" /\ pass.direction = "RTL" /\ pass.root = 1
  /\ Subtree(1) = {1, 2, 3}
  /\ styleCache[1].flexDirection = "ColumnReverse"
  /\ pass.before[1] = "ColumnReverse"
  /\ taffyStyle[1].flex_direction = "ColumnReverse"
  /\ styleCache[2].flexDirection = "Row"
  /\ pass.before[2] = "Row"
  /\ taffyStyle[2].flex_direction = "RowReverse"
  /\ styleCache[3].flexDirection = "RowReverse"
  /\ pass.before[3] = "RowReverse"
  /\ taffyStyle[3].flex_direction = "Row"

(* ---- Dirty specification: the dirty and new-layout flags over a tree ---- *)
DirtyCreate == \E n \in Nodes : \E useWebDefaults \in BOOLEAN : Create(n, useWebDefaults)

DirtySetFlexDirection == \E n \in Nodes : SetFlexDirection(n, "Column")

DirtyMarkLayoutSeen == \E n \in Nodes : MarkLayoutSeen(n)

\* layout is asked of the root of a tree, with no direction argument
DirtyCalculateLayout ==
  \E n \in Nodes : parent[n] = Null /\ CalculateLayout(n, "undefined")

NextDirty ==
  \/ DirtyCreate
  \/ TreeInsertChild
  \/ DirtySetFlexDirection
  \/ DirtyMarkLayoutSeen
  \/ DirtyCalculateLayout
  \/ LayoutCompleted
  \/ LayoutFailed

\* trees whose nodes are dirtied by a style setter, whose layouts are marked
\* seen, and which are laid out
SpecDirty == Init /\ [][NextDirty]_vars

(* ---- The flags after a pass (C9) ---- *)
\* C9: when calculateLayout on a root completes, every node of the subtree (the
\* root and all descendants reachable through child lists) has dirty = false and
\* hasNewLayout() = true, whatever their values were before the pass.
C9_FlagsAfterPass ==
  [][LayoutCompleted =>
       \A n \in Subtree(pass.root) : ~isDirty'[n] /\ hasNewLayout'[n]]_vars

\* the chain 1 - 2 - 3 after a pass: each node was dirtied by a flex direction
\* write and is clean with a new layout
C9_Witness ==
  /\ pass.pc = "idle"
  /\ childList[1] = <<2>> /\ childList[2] = <<3>>
  /\ \A n \in {1, 2, 3} :
       /\ taffyStyle[n].flex_direction = "Column"
       /\ ~isDirty[n] /\ hasNewLayout[n]

(* ---- Callback specification: one node, its callbacks and its mutations ---- *)
CallbackCreate == \E useWebDefaults \in BOOLEAN : Create(1, useWebDefaults)

CallbackSetMeasureFunc == \E present \in BOOLEAN : SetMeasureFunc(1, present)

CallbackSetDirtiedFunc == \E present \in BOOLEAN : SetDirtiedFunc(1, present)

CallbackSetDirection == \E d \in Directions : SetDirection(1, d)

CallbackSetMargin == \E v \in {Num(OwnLength("All")), Undefined} : SetMargin(1, "All", v)

CallbackSetFlexDirection == \E fd \in {"Row", "Column"} : SetFlexDirection(1, fd)

CallbackMarkDirty == MarkDirty(1)

CallbackCalculateLayout == CalculateLayout(1, "undefined")

NextCallback ==
  \/ CallbackCreate
  \/ CallbackSetMeasureFunc
  \/ CallbackSetDirtiedFunc
  \/ CallbackSetDirection
  \/ CallbackSetMargin
  \/ CallbackSetFlexDirection
  \/ CallbackMarkDirty
  \/ CallbackCalculateLayout
  \/ LayoutCompleted
  \/ LayoutFailed
  \/ Create(2, TRUE)
  \/ CopyStyle(1, 2)

\* one node whose callbacks are registered and removed, which is mutated, marked
\* dirty and laid out, and a second node whose style is copied onto it
SpecCallback == Init /\ [][NextCallback]_vars

(* ---- The dirtied callback (C10) ---- *)
\* C10: on a node that has both a measurement callback and a dirtied callback, a
\* style mutation or markDirty invokes the dirtied callback exactly once, with the
\* node as argument, when the node is Clean, and leaves it Dirty; while the node
\* is Dirty (no completed pass in between) it invokes no callback.
C10_DirtiedExactlyOnce ==
  [][(/\ measureFunc[1] /\ dirtiedFunc[1]
      /\ \/ CallbackSetDirection
         \/ CallbackSetMargin
         \/ CallbackSetFlexDirection
         \/ CallbackMarkDirty) =>
       /\ dirtiedLog' = IF isDirty[1] THEN <<>> ELSE <<1>>
       /\ isDirty'[1]]_vars

(* ---- Propagation specification: dirtying within a tree of callbacks ---- *)
\* nodes are created Clean, under a Config with web defaults
PropagateCreate == \E n \in Nodes : Create(n, TRUE)

PropagateSetMeasureFunc ==
  \E n \in Nodes : \E present \in BOOLEAN : SetMeasureFunc(n, present)

PropagateSetDirtiedFunc == \E n \in Nodes : SetDirtiedFunc(n, TRUE)

PropagateSetFlexDirection == \E n \in Nodes : SetFlexDirection(n, "Column")

PropagateMarkDirty == \E n \in Nodes : MarkDirty(n)

NextPropagate ==
  \/ PropagateCreate
  \/ TreeInsertChild
  \/ PropagateSetMeasureFunc
  \/ PropagateSetDirtiedFunc
  \/ PropagateSetFlexDirection
  \/ PropagateMarkDirty

\* trees of Clean nodes that register callbacks, are mutated and marked dirty
SpecPropagate == Init /\ [][NextPropagate]_vars

(* ---- Dirty propagation (C11 - C13) ---- *)
RECURSIVE Ancestors(_)
\* the nodes propagateDirtyToParent walks from n: its parent chain
Ancestors(n) ==
  IF parent[n] = Null THEN {} ELSE {parent[n]} \cup Ancestors(parent[n])

\* how many times the callback of node n was invoked
Invocations(log, n) == Cardinality({i \in 1..Len(log) : log[i] = n})

\* C11: a style-mutating operation on a Clean node that has ancestors propagates
\* upward: after it, every ancestor that was Clean is Dirty, and the dirtied
\* callback of each such ancestor that has one registered has been invoked once.
C11_StyleMutationPropagates ==
  [][\A n \in Nodes :
       (SetFlexDirection(n, "Column") /\ ~isDirty[n]) =>
         \A a \in Ancestors(n) :
           ~isDirty[a] =>
             /\ isDirty'[a]
             /\ dirtiedFunc[a] => Invocations(dirtiedLog', a) = 1]_vars

\* C12: markDirty on a node that has a measurement callback leaves that node and
\* every ancestor Dirty, and invokes the dirtied callback of each ancestor that
\* was Clean (and has one) exactly once whether or not that ancestor has a
\* measurement callback; an ancestor that was already Dirty gets no callback, and
\* propagation still continues above it.
C12_MarkDirtyPropagates ==
  [][\A n \in Nodes :
       (MarkDirty(n) /\ measureFunc[n]) =>
         /\ isDirty'[n]
         /\ \A a \in Ancestors(n) :
              /\ isDirty'[a]
              /\ Invocations(dirtiedLog', a)
                   = IF ~isDirty[a] /\ dirtiedFunc[a] THEN 1 ELSE 0]_vars

\* markDirty on node 3 of the chain 1 - 2 - 3 has invoked the callbacks of node 3
\* and of node 1, which has no measurement callback, and not that of node 2, which
\* was already Dirty
C12_Witness ==
  /\ childList[1] = <<2>> /\ childList[2] = <<3>>
  /\ measureFunc[3] /\ ~measureFunc[1]
  /\ dirtiedFunc[1] /\ dirtiedFunc[2] /\ dirtiedFunc[3]
  /\ isDirty[1] /\ isDirty[2] /\ isDirty[3]
  /\ dirtiedLog = <<3, 1>>

\* C13: markDirty on a node without a measurement callback (never set, or unset
\* by setMeasureFunc(null)) changes nothing: the node's and every ancestor's
\* dirty flag are unchanged and no dirtied callback is invoked.
C13_MarkDirtyNeedsMeasure ==
  [][\A n \in Nodes :
       (MarkDirty(n) /\ ~measureFunc[n]) =>
         /\ isDirty' = isDirty
         /\ dirtiedLog' = <<>>
         /\ UNCHANGED <<styleCache, taffyStyle, hasNewLayout, childList, parent>>]_vars

\* node 2, child of node 1, has a dirtied callback and no measurement callback
\* (node 1 has both); both are Clean and no callback was invoked
C13_Witness ==
  /\ childList[1] = <<2>>
  /\ ~measureFunc[2] /\ dirtiedFunc[2] /\ ~isDirty[2]
  /\ measureFunc[1] /\ dirtiedFunc[1] /\ ~isDirty[1]
  /\ dirtiedLog = <<>>

(* ---- Style mutations and the dirty flag (C14) ---- *)
\* C14: every style-mutating operation, called on a Clean node, leaves that node
\* Dirty; this holds for every setter that changes the canonical style cache or
\* the engine style, including setDirection and the edge setters.
C14_MutationDirties ==
  [][(/\ ~isDirty[1]
      /\ CallbackSetDirection \/ CallbackSetMargin \/ CallbackSetFlexDirection
      /\ styleCache'[1] # styleCache[1] \/ taffyStyle'[1] # taffyStyle[1]) =>
       isDirty'[1]]_vars

(* ---- Flags specification: the flags under tree operations and reset ---- *)
FlagsRemoveChild == \E n \in Nodes : \E child \in Nodes : RemoveChild(n, child)

FlagsReset == \E n \in Nodes : Reset(n)

NextFlags ==
  \/ DirtyCreate
  \/ TreeInsertChild
  \/ FlagsRemoveChild
  \/ DirtySetFlexDirection
  \/ DirtyMarkLayoutSeen
  \/ FlagsReset
  \/ DirtyCalculateLayout
  \/ LayoutCompleted
  \/ LayoutFailed

\* the dirty specification, with children removed and nodes reset
SpecFlags == Init /\ [][NextFlags]_vars

(* ---- When the flags change (C15, C16) ---- *)
\* C15: a node's dirty flag goes from Dirty to Clean only at the end of a
\* completed layout pass that visits the node: no other operation (style setters,
\* tree operations, markLayoutSeen, reset, a pass that fails) turns a Dirty node
\* Clean.
C15_CleanOnlyByPass ==
  [][\A n \in Nodes :
       (isDirty[n] /\ ~isDirty'[n]) =>
         (LayoutCompleted /\ n \in Subtree(pass.root))]_vars

MaxChildren == 2

NextRegistry ==
  \/ \E n \in Nodes : \E c \in Configs : CreateIn(n, c, TRUE)
  \/ \E n \in Nodes : \E child \in Nodes : \E index \in 0..MaxChildren :
       /\ Len(childList[n]) < MaxChildren
       /\ InsertChild(n, child, index)
  \/ \E n \in Nodes : \E child \in Nodes : \E index \in 0..MaxChildren :
       InsertChildFailed(n, child, index)
  \/ \E n \in Nodes : \E child \in Nodes : RemoveChild(n, child)
  \/ \E n \in Nodes : Free(n)
  \/ \E n \in Nodes : FreeRecursive(n)
  \/ \E n \in Nodes : Reset(n)
  \/ \E c \in Configs : ConfigFree(c)

SpecRegistry == Init /\ [][NextRegistry]_vars

\* C17: in every reachable state the nodes the registry holds are exactly the
\* nodes whose handle is live in a tree that has not been freed: no entry for a
\* node that was removed or whose tree was destroyed, and no live node without
\* its entry
C17_RegistryTracksTrees == instanceCache = {n \in Nodes : Usable(n)}

\* C18: from its creation until it is freed, the lookup of a node's handle
\* returns that node, whatever nodes are created or freed under any Config
C18_LookupReturnsNode ==
  \A n \in Nodes : Usable(n) => GetNodeById(nodeId[n]) = n

\* how many times a node occurs in the child list of n
Occurrences(n, child) ==
  Cardinality({i \in 1..Len(childList[n]) : childList[n][i] = child})

\* C19: in every reachable state each node occurs in the child list of at most
\* one node, and at most once in that list
C19_ListedAtMostOnce ==
  \A child \in Nodes :
    /\ \A n \in Nodes : Occurrences(n, child) <= 1
    /\ \A n \in Nodes : \A m \in Nodes :
         (Occurrences(n, child) > 0 /\ Occurrences(m, child) > 0) => n = m

\* C20: in every reachable state the child list and the parent reference of a
\* live node name live nodes only: a node that free removed from the engine is
\* in no child list of a live node and is the parent of no live node
C20_ShadowFollowsEngine ==
  \A n \in Nodes : Usable(n) =>
    /\ \A i \in 1..Len(childList[n]) : Usable(childList[n][i])
    /\ parent[n] # Null => Usable(parent[n])

C22_FreeRemovesOnlyNode ==
  [][\A n \in Nodes :
       Free(n) =>
         /\ instanceCache' = instanceCache \ {n}
         /\ \A m \in Nodes \ {n} :
              /\ childList'[m] = childList[m]
              /\ styleCache'[m] = styleCache[m]
              /\ isDirty'[m] = isDirty[m]
              /\ hasNewLayout'[m] = hasNewLayout[m]]_vars

RECURSIVE Without(_, _)
\* a list without the entries that are x, the others in their order
Without(list, x) ==
  IF list = <<>> THEN <<>>
  ELSE IF Head(list) = x THEN Without(Tail(list), x)
  ELSE <<Head(list)>> \o Without(Tail(list), x)

\* whether the child list of n holds x
Lists(n, x) == \E i \in 1..Len(childList[n]) : childList[n][i] = x

\* C23: removeChild(parent, child) for a listed child leaves parent's list
\* without child and with the other children in their order, clears child's
\* parent reference and leaves every other list and parent reference as it
\* was; for a child that is not listed it leaves the lists and the parent
\* references as they were
C23_RemoveChildEffect ==
  [][\A n \in Nodes : \A child \in Nodes :
       RemoveChild(n, child) =>
         IF Lists(n, child)
           THEN /\ childList'[n] = Without(childList[n], child)
                /\ parent'[child] = Null
                /\ \A m \in Nodes \ {n} : childList'[m] = childList[m]
                /\ \A m \in Nodes \ {child} : parent'[m] = parent[m]
           ELSE /\ childList' = childList
                /\ parent' = parent]_vars

\* a list without its entry at position i
WithoutAt(list, i) == SubSeq(list, 1, i - 1) \o SubSeq(list, i + 1, Len(list))

\* C24: insertChild(parent, child, index) with 0 <= index <= childCount leaves
\* child at index, one more child, the other children in their order and
\* parent as child's parent reference; when the engine call fails, the child
\* lists and the parent references are as they were
C24_InsertChildEffect ==
  [][\A n \in Nodes : \A child \in Nodes : \A index \in 0..MaxChildren :
       /\ InsertChild(n, child, index) =>
            /\ Len(childList'[n]) = Len(childList[n]) + 1
            /\ childList'[n][index + 1] = child
            /\ WithoutAt(childList'[n], index + 1) = childList[n]
            /\ parent'[child] = n
       /\ InsertChildFailed(n, child, index) =>
            /\ childList' = childList
            /\ parent' = parent]_vars

\* insertChild has put node 3 in front of node 2
C24_Witness ==
  /\ childList[1] = <<3, 2>>
  /\ parent[2] = 1
  /\ parent[3] = 1

\* ---------------------------------------------------------------------------
\* The reset specification: nodes of the default Config, which does not use web
\* defaults, are put into trees and reset, the first of them after it was
\* styled and given callbacks
\* ---------------------------------------------------------------------------
NextReset ==
  \/ \E n \in Nodes : Create(n, FALSE)
  \/ TreeInsertChild
  \/ SetFlexDirection(1, "RowReverse")
  \/ SetPositionType(1, "Absolute")
  \/ SetMeasureFunc(1, TRUE)
  \/ SetDirtiedFunc(1, TRUE)
  \/ \E n \in Nodes : Reset(n)

SpecReset == Init /\ [][NextReset]_vars

\* C25: reset(n) leaves n its handle, its registry entry and its place in its
\* parent's child list, leaves n without children and callbacks, and leaves
\* the style getters of n returning what they return on a node newly created
\* under the same Config
C25_ResetRestoresDefaults ==
  [][\A n \in Nodes :
       /\ Create(n, FALSE) => GetFlexDirection(n)' = NewNodeFlexDirection(FALSE)
       /\ Reset(n) =>
            /\ nodeId' = nodeId /\ instanceCache' = instanceCache
            /\ \A m \in Nodes \ {n} : childList'[m] = childList[m]
            /\ childList'[n] = <<>>
            /\ ~measureFunc'[n] /\ ~dirtiedFunc'[n]
            /\ taffyStyle'[n].position = DefaultTaffyStyle.position
            /\ styleCache'[n] = DefaultStyleCache
            /\ GetFlexDirection(n)' = NewNodeFlexDirection(FALSE)]_vars

\* ---------------------------------------------------------------------------
\* The no-op specification: the callback specification's node, on which the
\* setters of the unsupported features are called as well
\* ---------------------------------------------------------------------------
NextNoop ==
  \/ CallbackCreate
  \/ CallbackSetMeasureFunc
  \/ CallbackSetDirtiedFunc
  \/ CallbackSetFlexDirection
  \/ CallbackSetMargin
  \/ CallbackMarkDirty
  \/ CallbackCalculateLayout
  \/ LayoutCompleted
  \/ LayoutFailed
  \/ \E value \in BOOLEAN : SetIsReferenceBaseline(1, value)
  \/ SetBaselineFunc(1)
  \/ \E value \in BOOLEAN : SetAlwaysFormsContainingBlock(1, value)

SpecNoop == Init /\ [][NextNoop]_vars

\* what the setters of the unsupported features must leave alone
NoopFrame ==
  /\ taffyStyle' = taffyStyle
  /\ styleCache' = styleCache
  /\ isDirty' = isDirty
  /\ hasNewLayout' = hasNewLayout
  /\ childList' = childList
  /\ measureFunc' = measureFunc /\ dirtiedFunc' = dirtiedFunc
  /\ dirtiedLog' = <<>>

\* C26: setBaselineFunc, setAlwaysFormsContainingBlock and
\* setIsReferenceBaseline leave the engine style, the style cache, the flags,
\* the child list and the callbacks of the node unchanged and invoke no
\* callback; setIsReferenceBaseline changes only what isReferenceBaseline
\* returns, which the other two leave unchanged
C26_UnsupportedAreNoops ==
  [][\A n \in Nodes : \A value \in BOOLEAN :
       /\ SetBaselineFunc(n) => NoopFrame /\ UNCHANGED isReferenceBaseline
       /\ SetAlwaysFormsContainingBlock(n, value) =>
            NoopFrame /\ UNCHANGED isReferenceBaseline
       /\ SetIsReferenceBaseline(n, value) =>
            NoopFrame /\ isReferenceBaseline'[n] = value]_vars

\* setIsReferenceBaseline(true) has been called on a Clean node that has a
\* dirtied callback
C26_Witness ==
  /\ isReferenceBaseline[1]
  /\ dirtiedFunc[1]
  /\ ~isDirty[1]
  /\ pass.pc = "idle"

\* a value handed to a setter, as the { unit, value } a getter is to return
WithUnit(v) ==
  CASE v.t = "number" -> [unit |-> "Point", value |-> v.n]
    [] v.t = "percent" -> [unit |-> "Percent", value |-> v.n]
    [] v.t = "auto" -> [unit |-> "Auto", value |-> NaN]
    [] OTHER -> [unit |-> "Undefined", value |-> NaN]

\* C27: for margin, padding and border and for every edge key, the getter
\* called after the setter returns the value that was set, with its unit, and
\* Undefined after undefined was set; and after a layout pass
\* getComputedMargin(Left) returns the length set on Left when no other key of
\* the left side is set
C27_EdgeRoundTrip ==
  [][/\ \A edge \in EdgeKeys : \A v \in MarginInputs(edge) :
          SetMargin(1, edge, v) => GetMargin(1, edge)' = WithUnit(v)
     /\ \A edge \in EdgeKeys : \A v \in PaddingInputs(edge) :
          SetPadding(1, edge, v) => GetPadding(1, edge)' = WithUnit(v)
     /\ \A edge \in EdgeKeys : \A v \in BorderInputs(edge) :
          SetBorder(1, edge, v) => GetBorder(1, edge)' = WithUnit(v).value
     /\ (/\ LayoutCompleted
         /\ styleCache[1].margins["Left"].t = "number"
         /\ \A k \in {"All", "Horizontal", "Start", "End"} :
              styleCache[1].margins[k] = Undefined)
          => GetComputedMargin(1, "Left")' = styleCache[1].margins["Left"].n]_vars

\* ---------------------------------------------------------------------------
\* The last-direction specification: all nodes but one are made, given
\* directions, copy each other's style and are laid out under either direction
\* ---------------------------------------------------------------------------
NextLastDirection ==
  \/ \E n \in Nodes : n < MaxNodes /\ Create(n, TRUE)
  \/ TreeInsertChild
  \/ \E n \in Nodes : \E child \in Nodes : Lists(n, child) /\ RemoveChild(n, child)
  \/ \E n \in Nodes : SetDirection(n, "RTL")
  \/ SetMargin(1, "Start", Num(OwnLength("Start")))
  \/ \E n \in Nodes : \E node \in Nodes : n # node /\ CopyStyle(n, node)
  \/ SetMeasureFunc(1, TRUE)
  \/ measureFunc[1] /\ MarkDirty(1)
  \/ hasNewLayout[1] /\ MarkLayoutSeen(1)
  \/ \E n \in Nodes : \E d \in {"undefined", "LTR"} :
       parent[n] = Null /\ CalculateLayout(n, d)
  \/ LayoutCompleted
  \/ LayoutFailed

SpecLastDirection == Init /\ [][NextLastDirection]_vars

\* C28: the direction a node's Start and End edges are resolved under changes
\* only in a layout pass that visits the node or by setDirection on the node,
\* and setDirection(d) with d LTR or RTL makes d that direction
C28_LastDirectionFrame ==
  [][\A n \in Nodes :
       /\ styleCache'[n].lastDirection # styleCache[n].lastDirection =>
            \/ \E r \in Nodes : \E d \in Directions \cup {"undefined"} :
                 CalculateLayout(r, d) /\ n \in Subtree(r)
            \/ \E d \in Directions : SetDirection(n, d)
       /\ \A d \in {"LTR", "RTL"} :
            SetDirection(n, d) => styleCache'[n].lastDirection = d]_vars

\* ---------------------------------------------------------------------------
\* The percentage specification: the sides of the nodes of a tree are given
\* percentage margins and paddings, and the engine lays the nodes out in
\* widths of its own
\* ---------------------------------------------------------------------------
PhysicalKeys == {"Left", "Right", "Top", "Bottom"}

\* a horizontal and a vertical side of a node that has a parent take percentages
NextPercent ==
  \/ \E n \in Nodes : n < MaxNodes /\ Create(n, TRUE)
  \/ TreeInsertChild
  \/ \E n \in Nodes : \E edge \in {"Left", "Top"} :
       parent[n] # Null /\ SetMargin(n, edge, StrPercent(OwnLength(edge)))
  \/ \E n \in Nodes : \E edge \in {"Left", "Top"} :
       parent[n] # Null /\ SetPadding(n, edge, StrPercent(OwnLength(edge)))
  \/ \E n \in Nodes : parent[n] = Null /\ CalculateLayout(n, "undefined")
  \/ \E width \in [Nodes -> {100, 250}] : LayoutCompletedWith(width)
  \/ LayoutFailed

SpecPercent == Init /\ [][NextPercent]_vars

\* Math.round(p / 100 * basis)
PercentOf(p, basis) == (p * basis + 50) \div 100

\* C29: for a node with a parent, the computed margin and the computed padding
\* of a side set to p% are p% of the parent's computed width, rounded, on the
\* vertical sides as on the horizontal ones
C29_PercentOfParentWidth ==
  \A n \in Nodes : \A edge \in PhysicalKeys :
    (Usable(n) /\ parent[n] # Null /\ pass.pc = "idle") =>
      /\ styleCache[n].margins[edge].t = "percent" =>
           GetComputedMargin(n, edge) =
             PercentOf(styleCache[n].margins[edge].n, layoutWidth[parent[n]])
      /\ styleCache[n].paddings[edge].t = "percent" =>
           GetComputedPadding(n, edge) =
             PercentOf(styleCache[n].paddings[edge].n, layoutWidth[parent[n]])

\* ---------------------------------------------------------------------------
\* The available-space specification: one node is laid out with numbers, NaN,
\* "auto" or nothing as width and height, under every direction argument
\* ---------------------------------------------------------------------------
SizeArguments == {Num(0), Num(100), NaNValue, StrNonNumeric, Undefined}

NextAvailable ==
  \/ CallbackCreate
  \/ CallbackSetDirection
  \/ CallbackSetFlexDirection
  \/ \E width \in SizeArguments : \E height \in SizeArguments :
       \E d \in {"undefined", "LTR", "RTL"} : CalculateLayoutIn(1, width, height, d)
  \/ LayoutCompleted
  \/ LayoutFailed

SpecAvailable == Init /\ [][NextAvailable]_vars

\* the available size the engine is to be given for an argument
ExpectedAvailable(arg) == IF arg.t = "number" THEN Definite(arg.n) ELSE MaxContent

Unparseable == {StrNonNumeric, StrPercent(NaN)}

NextParse ==
  \/ Create(1, FALSE)
  \/ \E edge \in InsetKeys : \E v \in {Num(5)} \cup Unparseable :
       OnlyFamily(1, "margins") /\ SetMargin(1, edge, v)
  \/ \E edge \in InsetKeys : \E v \in {Num(5)} \cup Unparseable :
       OnlyFamily(1, "paddings") /\ SetPadding(1, edge, v)
  \/ \E edge \in InsetKeys : \E v \in {Num(5), StrPercent(10), StrAuto, Undefined} \cup Unparseable :
       OnlyFamily(1, "insets") /\ SetPosition(1, edge, v)

SpecParse == Init /\ [][NextParse]_vars

\* C31: setting an edge to an input that is neither a number, a numeric
\* string, a well-formed percentage nor "auto" ("abc", "abc%") completes, and
\* the getter of that edge then returns unit Undefined
C31_UnparseableIsUndefined ==
  [][\A edge \in InsetKeys : \A v \in Unparseable :
       /\ SetMargin(1, edge, v) => GetMargin(1, edge)'.unit = "Undefined"
       /\ SetPadding(1, edge, v) => GetPadding(1, edge)'.unit = "Undefined"
       /\ SetPosition(1, edge, v) => GetPosition(1, edge)'.unit = "Undefined"]_vars


\* C32: a layout pass invokes no dirtied callback: calculateLayout on a root,
\* in either direction, calls the dirtied callback of no node, also when the
\* root is Clean and carries a measurement and a dirtied callback
C32_PassInvokesNoCallback ==
  [][CallbackCalculateLayout => dirtiedLog' = <<>>]_vars


\* C33: parent references and child lists agree in every reachable state:
\* getParent() of c is p exactly when c is in p's child list; after reset(p) no
\* former child reports p as its parent, and after free(p) no child of p does
C33_ParentsAgreeWithLists ==
  [][/\ \A p \in Nodes : \A c \in Nodes : (parent[c] = p <=> Lists(p, c))'
     /\ \A p \in Nodes :
          Reset(p) \/ Free(p) => \A c \in Nodes : parent'[c] # p]_vars


\* C34: in every state reached by create, insertChild, removeChild and free,
\* freeRecursive(n) on a live node n calls free exactly once on n and on each
\* node reachable from n through child lists, and on no node that was freed
\* before
C34_FreesEachNodeOnce ==
  \A n \in Nodes :
    Usable(n) =>
      LET order == FreeOrder(n)
      IN  /\ \A i \in 1..Len(order) : Usable(order[i])
          /\ \A i \in 1..Len(order) : \A j \in 1..Len(order) :
               i # j => order[i] # order[j]


\* ---------------------------------------------------------------------------
\* The static-position specification: two nodes, the second a possible child
\* of the first; positions are set on the first, position types on both,
\* styles are copied from one onto the other and the first is laid out in both
\* directions.
\* ---------------------------------------------------------------------------
NextStatic ==
  \/ \E n \in Nodes : n < MaxNodes /\ Create(n, FALSE)
  \/ Len(childList[1]) = 0 /\ InsertChild(1, 2, 0)
  \/ \E v \in {Num(OwnLength("Left")), StrAuto} : SetPosition(1, "Left", v)
  \/ SetPosition(1, "Start", Num(OwnLength("Start")))
  \/ \E n \in Nodes : \E positionType \in PositionTypes :
       SetPositionType(n, positionType)
  \/ \E n \in Nodes : \E node \in Nodes \ {n} : CopyStyle(n, node)
  \/ \E d \in {"LTR", "RTL"} : CalculateLayout(1, d)
  \/ LayoutCompleted
  \/ LayoutFailed

SpecStatic == Init /\ [][NextStatic]_vars

C36_PositionRoundTrip ==
  [][\A edge \in InsetKeys :
       /\ \A v \in {Num(5), StrPercent(10), StrAuto} :
            SetPosition(1, edge, v) => GetPosition(1, edge)' = WithUnit(v)
       /\ SetPosition(1, edge, Undefined) =>
            GetPosition(1, edge)'.unit \notin {"Point", "Percent"}]_vars




\* C37: a node's dirty flag is already true when its dirtied callback is
\* invoked, so that a style mutation or markDirty on a Dirty node invokes the
\* node's callback no further time; and a callback invoked by a style mutation
\* finds no property of the node's engine style that the mutation changes still
\* at the value from before the mutation
C37_CallbackReentrancySafe ==
  [][/\ \A i \in 1..Len(dirtiedView') : dirtiedView'[i].dirty
     /\ \A n \in Nodes :
          isDirty[n] => \A i \in 1..Len(dirtiedLog') : dirtiedLog'[i] # n
     /\ pass.pc = "idle" /\ pass'.pc = "idle" =>
          \A i \in 1..Len(dirtiedLog') :
            LET n == dirtiedLog'[i]
            IN  \A f \in DOMAIN taffyStyle[n] :
                  taffyStyle'[n][f] # taffyStyle[n][f] =>
                    dirtiedView'[i].style[f] # taffyStyle[n][f]]_vars


\* ---------------------------------------------------------------------------
\* The new-node specification: a node made under a Config with web defaults
\* and one made under a Config without, no layout pass; callbacks are
\* registered and margins are set to lengths, so that a node whose cache is the
\* default cache has not been mutated since it was made.
\* ---------------------------------------------------------------------------
NextNewNode ==
  \/ Create(1, TRUE)
  \/ Create(2, FALSE)
  \/ \E n \in Nodes : \E present \in BOOLEAN : SetMeasureFunc(n, present)
  \/ \E n \in Nodes : \E present \in BOOLEAN : SetDirtiedFunc(n, present)
  \/ \E n \in Nodes : \E edge \in {"All", "Start", "Left"} :
       SetMargin(n, edge, Num(OwnLength(edge)))

SpecNewNode == Init /\ [][NextNewNode]_vars

\* C38: a node created with web defaults and one created without are in the
\* same dirty state before their first layout pass, and once both have a
\* measurement and a dirtied callback a style mutation invokes the dirtied
\* callback the same number of times on each
C38_DirtyStateIgnoresConfig ==
  (/\ Usable(1) /\ Usable(2)
   /\ styleCache[1] = DefaultStyleCache /\ styleCache[2] = DefaultStyleCache) =>
    /\ isDirty[1] = isDirty[2]
    /\ (measureFunc[1] /\ dirtiedFunc[1] /\ measureFunc[2] /\ dirtiedFunc[2]) =>
         \A edge \in {"All", "Start", "Left"} :
           Len(SetMarginOn(World, 1, edge, Num(OwnLength(edge))).log)
             = Len(SetMarginOn(World, 2, edge, Num(OwnLength(edge))).log)


\* ---------------------------------------------------------------------------
\* The copy specification: two nodes, the second a possible child of the
\* first; the first is given a Left margin (a length, or the number NaN), a
\* Start position, the Static position type and the Row flex direction, the
\* second is given callbacks, and styles are copied from one onto the other.
\* ---------------------------------------------------------------------------
NextCopy ==
  \/ \E n \in Nodes : n < MaxNodes /\ Create(n, TRUE)
  \/ Len(childList[1]) = 0 /\ InsertChild(1, 2, 0)
  \/ \E n \in Nodes : \E v \in {Num(OwnLength("Left")), Num(NaN)} :
       SetMargin(n, "Left", v)
  \/ SetPosition(1, "Start", Num(OwnLength("Start")))
  \/ SetPositionType(1, "Static")
  \/ SetFlexDirection(1, "Row")
  \/ SetMeasureFunc(2, TRUE)
  \/ SetDirtiedFunc(2, TRUE)
  \/ \E n \in Nodes : \E node \in Nodes \ {n} : CopyStyle(n, node)

SpecCopy == Init /\ [][NextCopy]_vars

\* C39: after dst.copyStyle(src) the cached position type, flex direction, box
\* sizing and every cached edge value of dst equal those of src; src's cache,
\* engine style, flags and callbacks are unchanged; dst's child list, parent
\* and callbacks are unchanged; and an edge set on one node changes neither
\* the cache nor the engine style of the other
C39_CopyStyleIndependent ==
  [][\A dst \in Nodes : \A src \in Nodes \ {dst} :
       /\ CopyStyle(dst, src) =>
            /\ styleCache'[dst].position = styleCache[src].position
            /\ styleCache'[dst].flexDirection = styleCache[src].flexDirection
            /\ styleCache'[dst].boxSizing = styleCache[src].boxSizing
            /\ styleCache'[dst].insets = styleCache[src].insets
            /\ styleCache'[dst].borders = styleCache[src].borders
            /\ styleCache'[dst].margins = styleCache[src].margins
            /\ styleCache'[dst].paddings = styleCache[src].paddings
            /\ styleCache'[src] = styleCache[src]
            /\ taffyStyle'[src] = taffyStyle[src]
            /\ isDirty'[src] = isDirty[src]
            /\ hasNewLayout'[src] = hasNewLayout[src]
            /\ measureFunc' = measureFunc
            /\ dirtiedFunc' = dirtiedFunc
            /\ childList'[dst] = childList[dst]
            /\ parent'[dst] = parent[dst]
       /\ (\/ \E v \in {Num(OwnLength("Left")), Num(NaN)} : SetMargin(dst, "Left", v)
           \/ SetPosition(dst, "Start", Num(OwnLength("Start")))) =>
            /\ styleCache'[src] = styleCache[src]
            /\ taffyStyle'[src] = taffyStyle[src]]_vars
====
